---------------------------- MODULE Spec2Model ----------------------------
(***************************************************************************)
(* Model of the Release reconciliation adapter                             *)
(* (controllers/release/release_adapter.go).                               *)
(*                                                                         *)
(* One Release is reconciled against a resource store.  The store holds    *)
(* the Release, the release PipelineRuns, the SnapshotEnvironmentBindings  *)
(* and the ReleasePlanAdmissions.  A reconciliation pass reads the Release *)
(* into memory (a_release) and runs the chain of Ensure* operations, one   *)
(* action per operation; the user and the pipeline / deployment engines    *)
(* act on the store between the operations of a pass.                      *)
(***************************************************************************)
EXTENDS Naturals, Integers, Sequences, FiniteSets, TLC

VARIABLES
    release,        \* the Release as stored
    a_release,      \* a.release: the in-memory Release of the running pass
    pipelineRuns,   \* the stored PipelineRuns
    bindings,       \* the stored SnapshotEnvironmentBindings
    admissions,     \* the stored ReleasePlanAdmissions
    created,        \* how many PipelineRuns and bindings the store has named
    pc,             \* the operation the pass is about to run, or "idle"
    result,         \* the last operation run and what it returned
    log,            \* the store calls of the current pass, in order
    fetched,        \* the Release as the current pass read it
    rsFirst,        \* resolution study: outcome of a first resolution
    rsSecond,       \* resolution study: outcome of a second resolution
    passes          \* concurrency study: the pass of each Release

vars == <<release, a_release, pipelineRuns, bindings, admissions, created,
          pc, result, log, fetched, rsFirst, rsSecond,
          passes>>

-----------------------------------------------------------------------------
(* Bounds *)

\* PipelineRuns and bindings the store names (generateName) over one
\* behaviour.
MaxRuns == 2
MaxBindings == 2

\* ReleasePlanAdmissions in the store of the reconciliation model.
MaxAdmissions == 2

\* ReleasePlanAdmissions in the store of the resolution study.
MaxListed == 2

-----------------------------------------------------------------------------
(* Names.  A name is a sequence of characters. *)

finalizerName == "appstudio.redhat.com/release-finalizer"

Separator == "/"

ReleaseName == <<"r">>
ReleaseNamespace == <<"d">>
OtherReleaseName == <<"q">>

\* The ReleasePlan the Release references: its application and its target.
PlanApplication == "app"
OtherApplication == "other"
PlanTarget == <<"t">>
OtherNamespace == <<"u">>

StrategyName == <<"s">>
EnvironmentName == <<"e">>
NoEnvironment == <<>>

Digit(n) == <<"0", "1", "2", "3", "4", "5", "6", "7", "8", "9">>[n + 1]

\* fmt.Sprintf("%s%c%s", namespace, types.Separator, name)
NamespacedName(namespace, name) == namespace \o <<Separator>> \o name

-----------------------------------------------------------------------------
(* Errors and operation results *)

Nil == "nil"
ErrNotFound == "not found"
ErrTransient == "transient"
ErrForbidden == "forbidden"
ErrMultiple == "multiple ReleasePlanAdmissions found"
ErrAutoReleaseFalse == "auto-release label set to false"
ErrNoAdmission == "no ReleasePlanAdmission found"

\* errors.IsNotFound
IsNotFound(err) == err = ErrNotFound

\* strings.Contains(err.Error(), part): the messages are told apart by the
\* fixed text each carries.
Contains(err, part) == err = part

Continue == "continue"
Stop == "stop"
Requeue == "requeue"
RequeueError == "requeueWithError"

ContinueProcessing == Continue
RequeueWithError(err) == RequeueError
RequeueOnErrorOrContinue(err) == IF err = Nil THEN Continue ELSE RequeueError
RequeueOnErrorOrStop(err) == IF err = Nil THEN Stop ELSE RequeueError

-----------------------------------------------------------------------------
(* The Release and its status (api/v1alpha1) *)

ConditionNone == "none"
ConditionUnknown == "Unknown"
ConditionTrue == "True"
ConditionFalse == "False"

ReleaseReasonRunning == "Running"
ReleaseReasonSucceeded == "Succeeded"
ReleaseReasonPipelineFailed == "ReleasePipelineFailed"
ReleaseReasonValidationError == "ReleaseValidationError"
ReleaseReasonReleasePlanValidationError == "ReleasePlanValidationError"
ReleaseReasonTargetDisabledError == "ReleaseTargetDisabledError"

NoTime == 0

\* time.Now(): every stamp is later than the one it replaces.  The count
\* stops at MaxStamps.
MaxStamps == 2
Now(previous) == IF previous < MaxStamps THEN previous + 1 ELSE MaxStamps

EmptyStatus ==
    [succeeded |-> ConditionNone,
     reason |-> "",
     message |-> "",
     startTime |-> FALSE,
     completionTime |-> NoTime,
     releasePipelineRun |-> <<>>,
     releaseStrategy |-> <<>>,
     target |-> <<>>,
     snapshotEnvironmentBinding |-> <<>>,
     deployed |-> ConditionNone,
     deployedReason |-> "",
     deployedMessage |-> ""]

NewRelease ==
    [exists |-> TRUE,
     deletionTimestamp |-> FALSE,
     finalizers |-> {},
     status |-> EmptyStatus]

ContainsFinalizer(r, f) == f \in r.finalizers
AddFinalizer(r, f) == [r EXCEPT !.finalizers = @ \cup {f}]
RemoveFinalizer(r, f) == [r EXCEPT !.finalizers = @ \ {f}]

HasStarted(r) == r.status.startTime
IsDone(r) == r.status.succeeded \in {ConditionTrue, ConditionFalse}
HasSucceeded(r) == r.status.succeeded = ConditionTrue
HasBeenDeployed(r) == r.status.deployed \in {ConditionTrue, ConditionFalse}

setStatusCondition(r, status, reason, message) ==
    [r EXCEPT !.status.succeeded = status,
              !.status.reason = reason,
              !.status.message = message]

MarkInvalid(r, reason, message) ==
    setStatusCondition(r, ConditionFalse, reason, message)

MarkFailed(r, reason, message) ==
    setStatusCondition(r, ConditionFalse, reason, message)

MarkRunning(r) ==
    setStatusCondition([r EXCEPT !.status.startTime = TRUE],
                       ConditionUnknown, ReleaseReasonRunning, "")

MarkSucceeded(r) ==
    setStatusCondition(r, ConditionTrue, ReleaseReasonSucceeded, "")

MarkDeploying(r, reason, message) ==
    [r EXCEPT !.status.deployed = ConditionUnknown,
              !.status.deployedReason = reason,
              !.status.deployedMessage = message]

MarkDeployed(r, status, reason, message) ==
    [r EXCEPT !.status.deployed = status,
              !.status.deployedReason = reason,
              !.status.deployedMessage = message]

-----------------------------------------------------------------------------
(* The resource store *)

Ok == "ok"

\* The outcomes of a Get, of a List, Create or Sync, and of a Delete.
GetOutcomes == {Ok, ErrNotFound, ErrTransient}
CallOutcomes == {Ok, ErrTransient}
DeleteOutcomes == {Ok, ErrNotFound, ErrTransient}

Error(outcome) == IF outcome = Ok THEN Nil ELSE outcome

\* A store call as the log records it.
Call(name, outcome) == [op |-> pc, call |-> name, out |-> outcome]

\* What a function of the adapter returned, as the log records it.
Returned(name, err) == [op |-> pc, call |-> name, out |-> err]

\* The outcomes of a patch of the Release: a Release that is gone is not
\* found, and the store refuses a new finalizer on a Release being deleted.
PatchOutcomes(addsFinalizer) ==
    IF ~release.exists THEN {ErrNotFound}
    ELSE IF addsFinalizer /\ release.deletionTimestamp THEN {ErrForbidden}
    ELSE {Ok, ErrTransient}

\* client.MergeFrom(original): the patch carries the fields of the status
\* that differ from the original, and the store changes those.
MergeStatus(stored, original, changed) ==
    [f \in DOMAIN stored |->
        IF changed[f] # original[f] THEN changed[f] ELSE stored[f]]

\* The stored Release after a.client.Status().Patch(a.release, patch).
StatusPatched(original, changed) ==
    [release EXCEPT !.status = MergeStatus(@, original.status, changed.status)]

\* The stored Release after a.client.Patch(a.release, patch): a merge patch
\* replaces the list of finalizers when it differs from the original's.
FinalizersPatched(original, changed) ==
    IF changed.finalizers # original.finalizers
    THEN [release EXCEPT !.finalizers = changed.finalizers]
    ELSE release

-----------------------------------------------------------------------------
(* Admission resolution *)

\* The ReleasePlan the Release references.
ReleasePlan ==
    [namespace |-> ReleaseNamespace,
     target |-> PlanTarget,
     application |-> PlanApplication]

NoLabel == "<absent>"
NoAdmission == [name |-> ""]

AdmissionNames == <<"a1", "a2", "a3", "a4">>

\* The admission of a name declares an environment or none.
EnvironmentOf(i) == IF i % 2 = 1 THEN EnvironmentName ELSE NoEnvironment

Admission(i, ns, app, label) ==
    [name |-> AdmissionNames[i],
     namespace |-> ns,
     origin |-> ReleaseNamespace,
     application |-> app,
     autoRelease |-> label,
     environment |-> EnvironmentOf(i),
     releaseStrategy |-> StrategyName]

\* The sets of admissions with at most one admission of each of n names.
RECURSIVE AdmissionSets(_, _, _, _)
AdmissionSets(n, namespaces, applications, labels) ==
    IF n = 0 THEN {{}}
    ELSE LET rest == AdmissionSets(n - 1, namespaces, applications, labels)
             new == {Admission(n, ns, app, l) :
                        ns \in namespaces, app \in applications, l \in labels}
         IN  rest \cup {s \cup {x} : s \in rest, x \in new}

\* client.List(releasePlanAdmissions, InNamespace(target),
\* MatchingFields{"spec.origin": namespace}): the matching admissions, in
\* any order.
Listings(stored, namespace, origin) ==
    LET matching == {x \in stored : x.namespace = namespace /\ x.origin = origin}
        n == Cardinality(matching)
    IN  {items \in [1..n -> matching] :
            \A i, j \in 1..n : i # j => items[i] # items[j]}

\* Mutant of ActiveAmong: the auto-release label is not looked at.
RECURSIVE ActiveAmongAnyLabel(_, _, _)
ActiveAmongAnyLabel(items, i, active) ==
    IF i > Len(items)
    THEN IF active = NoAdmission
         THEN [rpa |-> NoAdmission, err |-> ErrNoAdmission]
         ELSE [rpa |-> active, err |-> Nil]
    ELSE IF items[i].application # ReleasePlan.application
         THEN ActiveAmongAnyLabel(items, i + 1, active)
    ELSE IF active # NoAdmission
         THEN [rpa |-> NoAdmission, err |-> ErrMultiple]
    ELSE ActiveAmongAnyLabel(items, i + 1, items[i])

\* The loop of getActiveReleasePlanAdmission over the listed items, from
\* item i on, with the active admission found so far.
RECURSIVE ActiveAmong(_, _, _)
ActiveAmong(items, i, active) ==
    IF i > Len(items)
    THEN IF active = NoAdmission
         THEN [rpa |-> NoAdmission, err |-> ErrNoAdmission]
         ELSE [rpa |-> active, err |-> Nil]
    ELSE IF items[i].application # ReleasePlan.application
         THEN ActiveAmong(items, i + 1, active)
    ELSE IF active # NoAdmission
         THEN [rpa |-> NoAdmission, err |-> ErrMultiple]
    ELSE IF items[i].autoRelease # NoLabel /\ items[i].autoRelease = "false"
         THEN [rpa |-> NoAdmission, err |-> ErrAutoReleaseFalse]
    ELSE ActiveAmong(items, i + 1, items[i])

\* getActiveReleasePlanAdmission: every outcome the store allows, with the
\* store calls made and what the function returned.
getActiveReleasePlanAdmission ==
    {[rpa |-> NoAdmission, err |-> Error(o),
      calls |-> <<Call("GetReleasePlan", o),
                  Returned("getActiveReleasePlanAdmission", Error(o))>>] :
        o \in GetOutcomes \ {Ok}}
    \cup
    {[rpa |-> NoAdmission, err |-> ErrTransient,
      calls |-> <<Call("GetReleasePlan", Ok),
                  Call("ListReleasePlanAdmissions", ErrTransient),
                  Returned("getActiveReleasePlanAdmission", ErrTransient)>>]}
    \cup
    {[rpa |-> ActiveAmong(items, 1, NoAdmission).rpa,
      err |-> ActiveAmong(items, 1, NoAdmission).err,
      calls |-> <<Call("GetReleasePlan", Ok),
                  Call("ListReleasePlanAdmissions", Ok),
                  Returned("getActiveReleasePlanAdmission",
                           ActiveAmong(items, 1, NoAdmission).err)>>] :
        items \in Listings(admissions, ReleasePlan.target, ReleasePlan.namespace)}

-----------------------------------------------------------------------------
(* The chain of operations of a pass *)

Idle == "idle"

Operations ==
    <<"EnsureFinalizersAreCalled",
      "EnsureFinalizerIsAdded",
      "EnsureReleasePlanAdmissionEnabled",
      "EnsureReleasePipelineRunExists",
      "EnsureReleasePipelineStatusIsTracked",
      "EnsureSnapshotEnvironmentBindingExists",
      "EnsureSnapshotEnvironmentBindingIsTracked">>

NextOperation(op) ==
    LET i == CHOOSE k \in 1..Len(Operations) : Operations[k] = op
    IN  IF i = Len(Operations) THEN Idle ELSE Operations[i + 1]

\* The operation at pc returns res: the chain goes on to the next operation
\* on continue and ends otherwise.  mem is a.release, stored the Release in
\* the store, runs and binds the stored PipelineRuns and bindings, calls the
\* store calls the operation made.
Return(res, mem, stored, runs, binds, calls) ==
    /\ result' = [op |-> pc, res |-> res]
    /\ pc' = IF res = Continue THEN NextOperation(pc) ELSE Idle
    /\ a_release' = mem
    /\ release' = stored
    /\ pipelineRuns' = runs
    /\ bindings' = binds
    /\ created' = [runs |-> created.runs + Cardinality(runs \ pipelineRuns),
                   bindings |-> created.bindings
                                    + Cardinality(binds \ bindings)]
    /\ log' = log \o calls
    /\ UNCHANGED <<admissions, fetched, rsFirst, rsSecond,
          passes>>

\* patch := client.MergeFrom(original); ...; a.client.Status().Patch(changed):
\* on success the store holds the merged status and a.release is the stored
\* Release; the operation returns ifOk on success and requeues on error.
PatchStatus(original, changed, ifOk, runs, binds, calls) ==
    \E o \in PatchOutcomes(FALSE) :
        IF o = Ok
        THEN Return(ifOk, StatusPatched(original, changed),
                    StatusPatched(original, changed), runs, binds,
                    calls \o <<Call("PatchReleaseStatus", o)>>)
        ELSE Return(RequeueError, changed, release, runs, binds,
                    calls \o <<Call("PatchReleaseStatus", o)>>)

\* The driver starts a pass: it reads the Release and runs the chain.
Reconcile ==
    /\ pc = Idle
    /\ release.exists
    /\ pc' = Operations[1]
    /\ a_release' = release
    /\ fetched' = release
    /\ log' = <<>>
    /\ result' = [op |-> "Reconcile", res |-> Continue]
    /\ UNCHANGED <<release, pipelineRuns, bindings, admissions, created,
                   rsFirst, rsSecond,
          passes>>

-----------------------------------------------------------------------------
(* Finalizers *)

NoRun == [name |-> <<>>]

ReleaseRuns ==
    {r \in pipelineRuns : /\ r.releaseName = ReleaseName
                          /\ r.releaseNamespace = ReleaseNamespace}

\* Mutant of getReleasePipelineRun: the List selects on the labels of
\* another Release, and finds nothing.
getReleasePipelineRunOtherLabels ==
    {[run |-> NoRun, err |-> ErrTransient,
      calls |-> <<Call("ListPipelineRuns", ErrTransient)>>],
     [run |-> NoRun, err |-> Nil,
      calls |-> <<Call("ListPipelineRuns", "none")>>]}

\* getReleasePipelineRun: List with Limit(1) and the two labels of the
\* Release; any one of the matching PipelineRuns, or none.
getReleasePipelineRun ==
    {[run |-> NoRun, err |-> ErrTransient,
      calls |-> <<Call("ListPipelineRuns", ErrTransient)>>]}
    \cup
    (IF ReleaseRuns = {}
     THEN {[run |-> NoRun, err |-> Nil,
            calls |-> <<Call("ListPipelineRuns", "none")>>]}
     ELSE {[run |-> r, err |-> Nil,
            calls |-> <<Call("ListPipelineRuns", "found")>>] : r \in ReleaseRuns})

\* Mutant of finalizeRelease: the PipelineRun is looked up and not deleted.
finalizeReleaseKeepsRun ==
    {[err |-> l.err, runs |-> pipelineRuns, calls |-> l.calls] :
        l \in getReleasePipelineRun}

\* finalizeRelease: the outcomes, each with the PipelineRuns left.  A Delete
\* that finds the PipelineRun gone is no error.
finalizeRelease ==
    UNION {
        IF l.err # Nil
        THEN {[err |-> l.err, runs |-> pipelineRuns, calls |-> l.calls]}
        ELSE IF l.run # NoRun
        THEN {[err |-> IF o # Ok /\ ~IsNotFound(o) THEN o ELSE Nil,
               runs |-> IF o = ErrTransient THEN pipelineRuns
                        ELSE pipelineRuns \ {l.run},
               calls |-> l.calls \o <<Call("DeletePipelineRun", o)>>] :
                 o \in DeleteOutcomes}
        ELSE {[err |-> Nil, runs |-> pipelineRuns, calls |-> l.calls]}
        : l \in getReleasePipelineRun}

\* Mutant of EnsureFinalizersAreCalled: the finalizer is removed first and
\* the Release finalized after.
EnsureFinalizersAreCalledPatchFirst ==
    /\ pc = "EnsureFinalizersAreCalled"
    /\ IF ~a_release.deletionTimestamp
       THEN Return(ContinueProcessing, a_release, release, pipelineRuns,
                   bindings, <<>>)
       ELSE IF ContainsFinalizer(a_release, finalizerName)
       THEN LET changed == RemoveFinalizer(a_release, finalizerName)
            IN  \E o \in PatchOutcomes(FALSE) :
                    IF o # Ok
                    THEN Return(RequeueWithError(o), changed, release,
                                pipelineRuns, bindings,
                                <<Call("PatchRelease", o)>>)
                    ELSE \E f \in finalizeRelease :
                            Return(IF f.err # Nil THEN RequeueWithError(f.err)
                                   ELSE Requeue,
                                   FinalizersPatched(a_release, changed),
                                   FinalizersPatched(a_release, changed),
                                   f.runs, bindings,
                                   <<Call("PatchRelease", o)>> \o f.calls)
       ELSE Return(Requeue, a_release, release, pipelineRuns, bindings, <<>>)

\* Mutant of EnsureFinalizersAreCalled: once the Release is finalized, or
\* when it carries no finalizer, the chain goes on.
EnsureFinalizersAreCalledGoesOn ==
    /\ pc = "EnsureFinalizersAreCalled"
    /\ IF ~a_release.deletionTimestamp
       THEN Return(ContinueProcessing, a_release, release, pipelineRuns,
                   bindings, <<>>)
       ELSE IF ContainsFinalizer(a_release, finalizerName)
       THEN \E f \in finalizeRelease :
               IF f.err # Nil
               THEN Return(RequeueWithError(f.err), a_release, release,
                           f.runs, bindings, f.calls)
               ELSE LET changed == RemoveFinalizer(a_release, finalizerName)
                    IN  \E o \in PatchOutcomes(FALSE) :
                            IF o # Ok
                            THEN Return(RequeueWithError(o), changed, release,
                                        f.runs, bindings,
                                        f.calls \o <<Call("PatchRelease", o)>>)
                            ELSE Return(ContinueProcessing,
                                        FinalizersPatched(a_release, changed),
                                        FinalizersPatched(a_release, changed),
                                        f.runs, bindings,
                                        f.calls \o <<Call("PatchRelease", o)>>)
       ELSE Return(ContinueProcessing, a_release, release, pipelineRuns,
                   bindings, <<>>)

EnsureFinalizersAreCalled ==
    /\ pc = "EnsureFinalizersAreCalled"
    /\ IF ~a_release.deletionTimestamp
       THEN Return(ContinueProcessing, a_release, release, pipelineRuns,
                   bindings, <<>>)
       ELSE IF ContainsFinalizer(a_release, finalizerName)
       THEN \E f \in finalizeRelease :
               IF f.err # Nil
               THEN Return(RequeueWithError(f.err), a_release, release,
                           f.runs, bindings, f.calls)
               ELSE LET changed == RemoveFinalizer(a_release, finalizerName)
                    IN  \E o \in PatchOutcomes(FALSE) :
                            IF o # Ok
                            THEN Return(RequeueWithError(o), changed, release,
                                        f.runs, bindings,
                                        f.calls \o <<Call("PatchRelease", o)>>)
                            ELSE Return(Requeue,
                                        FinalizersPatched(a_release, changed),
                                        FinalizersPatched(a_release, changed),
                                        f.runs, bindings,
                                        f.calls \o <<Call("PatchRelease", o)>>)
       ELSE Return(Requeue, a_release, release, pipelineRuns, bindings, <<>>)

EnsureFinalizerIsAdded ==
    /\ pc = "EnsureFinalizerIsAdded"
    /\ IF ~ContainsFinalizer(a_release, finalizerName)
       THEN LET changed == AddFinalizer(a_release, finalizerName)
            IN  \E o \in PatchOutcomes(TRUE) :
                    IF o = Ok
                    THEN Return(RequeueOnErrorOrContinue(Nil),
                                FinalizersPatched(a_release, changed),
                                FinalizersPatched(a_release, changed),
                                pipelineRuns, bindings,
                                <<Call("PatchRelease", o)>>)
                    ELSE Return(RequeueOnErrorOrContinue(o), changed, release,
                                pipelineRuns, bindings,
                                <<Call("PatchRelease", o)>>)
       ELSE Return(ContinueProcessing, a_release, release, pipelineRuns,
                   bindings, <<>>)

-----------------------------------------------------------------------------
(* Admission gate and release PipelineRun *)

\* a.release.MarkInvalid(reason, err.Error()); Status().Patch;
\* RequeueOnErrorOrStop.
InvalidAndStop(reason, err, calls) ==
    PatchStatus(a_release, MarkInvalid(a_release, reason, err), Stop,
                pipelineRuns, bindings, calls)

\* Mutant of EnsureReleasePlanAdmissionEnabled: every failure of the
\* resolution marks the Release invalid.
EnsureReleasePlanAdmissionEnabledStrict ==
    /\ pc = "EnsureReleasePlanAdmissionEnabled"
    /\ \E r \in getActiveReleasePlanAdmission :
          IF r.err # Nil /\ Contains(r.err, ErrAutoReleaseFalse)
          THEN InvalidAndStop(ReleaseReasonTargetDisabledError, r.err, r.calls)
          ELSE IF r.err # Nil
          THEN InvalidAndStop(ReleaseReasonValidationError, r.err, r.calls)
          ELSE Return(ContinueProcessing, a_release, release, pipelineRuns,
                      bindings, r.calls)

EnsureReleasePlanAdmissionEnabled ==
    /\ pc = "EnsureReleasePlanAdmissionEnabled"
    /\ \E r \in getActiveReleasePlanAdmission :
          IF r.err # Nil /\ Contains(r.err, ErrMultiple)
          THEN InvalidAndStop(ReleaseReasonValidationError, r.err, r.calls)
          ELSE IF r.err # Nil /\ Contains(r.err, ErrAutoReleaseFalse)
          THEN InvalidAndStop(ReleaseReasonTargetDisabledError, r.err, r.calls)
          ELSE Return(ContinueProcessing, a_release, release, pipelineRuns,
                      bindings, r.calls)

\* getReleaseStrategy: the strategy the admission names, in its namespace.
ReleaseStrategy(releasePlanAdmission) ==
    [namespace |-> releasePlanAdmission.namespace,
     name |-> releasePlanAdmission.releaseStrategy]

\* tekton.NewReleasePipelineRun(...).WithReleaseAndApplicationMetadata(...):
\* a PipelineRun in the strategy's namespace, named by the store, labelled
\* with the name and the namespace of the Release.
NewReleasePipelineRun(releaseStrategy) ==
    [name |-> <<"p", Digit(created.runs + 1)>>,
     namespace |-> releaseStrategy.namespace,
     releaseName |-> ReleaseName,
     releaseNamespace |-> ReleaseNamespace,
     succeeded |-> ConditionUnknown,
     message |-> ""]

\* Mutant of registerReleaseStatusData: the strategy is not written.
registerReleaseStatusDataNoStrategy(r, releasePipelineRun, releaseStrategy) ==
    MarkRunning(
        [r EXCEPT
            !.status.releasePipelineRun =
                NamespacedName(releasePipelineRun.namespace,
                               releasePipelineRun.name),
            !.status.target = releasePipelineRun.namespace])

\* registerReleaseStatusData with a PipelineRun and a strategy: the changed
\* a.release.
registerReleaseStatusData(r, releasePipelineRun, releaseStrategy) ==
    MarkRunning(
        [r EXCEPT
            !.status.releasePipelineRun =
                NamespacedName(releasePipelineRun.namespace,
                               releasePipelineRun.name),
            !.status.releaseStrategy =
                NamespacedName(releaseStrategy.namespace, releaseStrategy.name),
            !.status.target = releasePipelineRun.namespace])

\* The create path of EnsureReleasePipelineRunExists, after the lookup found
\* no PipelineRun: calls are the store calls made so far.
createAndRegister(calls) ==
    \E r \in getActiveReleasePlanAdmission :
        IF r.err # Nil
        THEN InvalidAndStop(ReleaseReasonReleasePlanValidationError, r.err,
                            calls \o r.calls)
        ELSE \E oStrategy \in GetOutcomes :
        IF oStrategy # Ok
        THEN InvalidAndStop(ReleaseReasonValidationError, oStrategy,
                 calls \o r.calls \o <<Call("GetReleaseStrategy", oStrategy)>>)
        ELSE \E oPolicy \in GetOutcomes :
        IF oPolicy # Ok
        THEN InvalidAndStop(ReleaseReasonValidationError, oPolicy,
                 calls \o r.calls \o <<Call("GetReleaseStrategy", Ok),
                     Call("GetEnterpriseContractPolicy", oPolicy)>>)
        ELSE \E oSnapshot \in GetOutcomes :
        IF oSnapshot # Ok
        THEN InvalidAndStop(ReleaseReasonValidationError, oSnapshot,
                 calls \o r.calls \o <<Call("GetReleaseStrategy", Ok),
                     Call("GetEnterpriseContractPolicy", Ok),
                     Call("GetSnapshot", oSnapshot)>>)
        ELSE \E oCreate \in CallOutcomes :
        LET made == calls \o r.calls \o <<Call("GetReleaseStrategy", Ok),
                        Call("GetEnterpriseContractPolicy", Ok),
                        Call("GetSnapshot", Ok),
                        Call("CreatePipelineRun", oCreate)>>
            releaseStrategy == ReleaseStrategy(r.rpa)
            pipelineRun == NewReleasePipelineRun(releaseStrategy)
        IN  IF oCreate # Ok
            THEN Return(RequeueWithError(oCreate), a_release, release,
                        pipelineRuns, bindings, made)
            ELSE /\ created.runs < MaxRuns
                 /\ PatchStatus(a_release,
                        registerReleaseStatusData(a_release, pipelineRun,
                                                  releaseStrategy),
                        Continue, pipelineRuns \cup {pipelineRun}, bindings,
                        made)

\* Mutant of EnsureReleasePipelineRunExists: a PipelineRun found by the
\* lookup is registered in the status as a created one is.
EnsureReleasePipelineRunExistsRegistersFound ==
    /\ pc = "EnsureReleasePipelineRunExists"
    /\ \E l \in getReleasePipelineRun :
          IF l.err # Nil /\ ~IsNotFound(l.err)
          THEN Return(RequeueWithError(l.err), a_release, release,
                      pipelineRuns, bindings, l.calls)
          ELSE IF l.run = NoRun
          THEN createAndRegister(l.calls)
          ELSE PatchStatus(a_release,
                   MarkRunning(
                       [a_release EXCEPT
                           !.status.releasePipelineRun =
                               NamespacedName(l.run.namespace, l.run.name),
                           !.status.target = l.run.namespace]),
                   Continue, pipelineRuns, bindings, l.calls)

EnsureReleasePipelineRunExists ==
    /\ pc = "EnsureReleasePipelineRunExists"
    /\ \E l \in getReleasePipelineRun :
          IF l.err # Nil /\ ~IsNotFound(l.err)
          THEN Return(RequeueWithError(l.err), a_release, release,
                      pipelineRuns, bindings, l.calls)
          ELSE IF l.run = NoRun
          THEN createAndRegister(l.calls)
          ELSE \* registerReleaseStatusData(pipelineRun, nil) returns nil
               Return(RequeueOnErrorOrContinue(Nil), a_release, release,
                      pipelineRuns, bindings, l.calls)

\* PipelineRun.IsDone
RunIsDone(run) == run.succeeded \in {ConditionTrue, ConditionFalse}

\* registerReleasePipelineRunStatus of a PipelineRun that is done: the
\* changed a.release.
registerReleasePipelineRunStatus(r, pipelineRun) ==
    LET stamped == [r EXCEPT !.status.completionTime = Now(@)]
    IN  IF pipelineRun.succeeded = ConditionTrue
        THEN MarkSucceeded(stamped)
        ELSE MarkFailed(stamped, ReleaseReasonPipelineFailed,
                        pipelineRun.message)

\* Mutant of EnsureReleasePipelineStatusIsTracked: the status of a PipelineRun
\* is registered whether the PipelineRun is done or not.
EnsureReleasePipelineStatusIsTrackedAnyRun ==
    /\ pc = "EnsureReleasePipelineStatusIsTracked"
    /\ IF ~HasStarted(a_release) \/ IsDone(a_release)
       THEN Return(ContinueProcessing, a_release, release, pipelineRuns,
                   bindings, <<>>)
       ELSE \E l \in getReleasePipelineRun :
               IF l.err # Nil
               THEN Return(RequeueWithError(l.err), a_release, release,
                           pipelineRuns, bindings, l.calls)
               ELSE IF l.run # NoRun
               THEN PatchStatus(a_release,
                        registerReleasePipelineRunStatus(a_release, l.run),
                        Continue, pipelineRuns, bindings, l.calls)
               ELSE Return(ContinueProcessing, a_release, release,
                           pipelineRuns, bindings, l.calls)

EnsureReleasePipelineStatusIsTracked ==
    /\ pc = "EnsureReleasePipelineStatusIsTracked"
    /\ IF ~HasStarted(a_release) \/ IsDone(a_release)
       THEN Return(ContinueProcessing, a_release, release, pipelineRuns,
                   bindings, <<>>)
       ELSE \E l \in getReleasePipelineRun :
               IF l.err # Nil
               THEN Return(RequeueWithError(l.err), a_release, release,
                           pipelineRuns, bindings, l.calls)
               ELSE IF l.run # NoRun /\ RunIsDone(l.run)
               THEN PatchStatus(a_release,
                        registerReleasePipelineRunStatus(a_release, l.run),
                        Continue, pipelineRuns, bindings, l.calls)
               ELSE Return(ContinueProcessing, a_release, release,
                           pipelineRuns, bindings, l.calls)

-----------------------------------------------------------------------------
(* SnapshotEnvironmentBinding *)

NoBinding == [name |-> <<>>]

ErrInvalidNamespacedName == "found invalid namespaced name"

\* The application of the Snapshot the Release references.
SnapshotApplication == PlanApplication

\* getEnvironment: the environment the admission names, in its namespace.
Environment(releasePlanAdmission) ==
    [namespace |-> releasePlanAdmission.namespace,
     name |-> releasePlanAdmission.environment]

\* Mutant of getSnapshotEnvironmentBinding: the bindings listed are matched
\* on the admission's name instead of its application.
getSnapshotEnvironmentBindingByName(environment, releasePlanAdmission) ==
    LET listed == {b \in bindings : /\ b.namespace = environment.namespace
                                    /\ b.environment = environment.name}
        matching == {b \in listed :
                        b.application = releasePlanAdmission.name}
    IN  {[binding |-> NoBinding, err |-> ErrTransient,
          calls |-> <<Call("ListBindings", ErrTransient)>>]}
        \cup
        (IF matching = {}
         THEN {[binding |-> NoBinding, err |-> Nil,
                calls |-> <<Call("ListBindings", "none")>>]}
         ELSE {[binding |-> b, err |-> Nil,
                calls |-> <<Call("ListBindings", "found")>>] : b \in matching})

\* getSnapshotEnvironmentBinding: List in the environment's namespace with
\* the environment's name, then the first binding of the admission's
\* application; the store lists in any order.
getSnapshotEnvironmentBinding(environment, releasePlanAdmission) ==
    LET listed == {b \in bindings : /\ b.namespace = environment.namespace
                                    /\ b.environment = environment.name}
        matching == {b \in listed :
                        b.application = releasePlanAdmission.application}
    IN  {[binding |-> NoBinding, err |-> ErrTransient,
          calls |-> <<Call("ListBindings", ErrTransient)>>]}
        \cup
        (IF matching = {}
         THEN {[binding |-> NoBinding, err |-> Nil,
                calls |-> <<Call("ListBindings", "none")>>]}
         ELSE {[binding |-> b, err |-> Nil,
                calls |-> <<Call("ListBindings", "found")>>] : b \in matching})

\* syncResources: the error, with the store calls made.
syncResources ==
    UNION {
        IF r.err # Nil
        THEN {[err |-> r.err, calls |-> r.calls]}
        ELSE UNION {
            IF oSnapshot # Ok
            THEN {[err |-> oSnapshot,
                   calls |-> r.calls \o <<Call("GetSnapshot", oSnapshot)>>]}
            ELSE {[err |-> Error(oSync),
                   calls |-> r.calls \o <<Call("GetSnapshot", Ok),
                                          Call("SyncSnapshot", oSync)>>] :
                     oSync \in CallOutcomes}
            : oSnapshot \in GetOutcomes}
        : r \in getActiveReleasePlanAdmission}

\* gitops.NewSnapshotEnvironmentBinding(components, snapshot, environment):
\* a binding in the environment's namespace, named by the store.
NewSnapshotEnvironmentBinding(environment) ==
    [name |-> <<"b", Digit(created.bindings + 1)>>,
     namespace |-> environment.namespace,
     environment |-> environment.name,
     application |-> SnapshotApplication,
     deployed |-> ConditionNone,
     reason |-> "",
     message |-> ""]

\* createSnapshotEnvironmentBinding: getSnapshotEnvironmentResources
\* (application, components, snapshot), then Create.
createSnapshotEnvironmentBinding(environment) ==
    {[err |-> o, calls |-> <<Call("GetApplication", o)>>] :
        o \in GetOutcomes \ {Ok}}
    \cup
    {[err |-> ErrTransient,
      calls |-> <<Call("GetApplication", Ok),
                  Call("ListComponents", ErrTransient)>>]}
    \cup
    {[err |-> o,
      calls |-> <<Call("GetApplication", Ok), Call("ListComponents", Ok),
                  Call("GetSnapshot", o)>>] : o \in GetOutcomes \ {Ok}}
    \cup
    {[err |-> Error(o),
      calls |-> <<Call("GetApplication", Ok), Call("ListComponents", Ok),
                  Call("GetSnapshot", Ok), Call("CreateBinding", o)>>] :
        o \in CallOutcomes}

\* The create path of EnsureSnapshotEnvironmentBindingExists, after the
\* lookup found no binding.
createAndRecordBinding(environment, calls) ==
    \E s \in syncResources :
        IF s.err # Nil
        THEN Return(RequeueWithError(s.err), a_release, release, pipelineRuns,
                    bindings, calls \o s.calls)
        ELSE \E c \in createSnapshotEnvironmentBinding(environment) :
            IF c.err # Nil
            THEN Return(RequeueWithError(c.err), a_release, release,
                        pipelineRuns, bindings, calls \o s.calls \o c.calls)
            ELSE LET binding == NewSnapshotEnvironmentBinding(environment)
                 IN  /\ created.bindings < MaxBindings
                     /\ PatchStatus(a_release,
                            [a_release EXCEPT
                                !.status.snapshotEnvironmentBinding =
                                    NamespacedName(binding.namespace,
                                                   binding.name)],
                            Continue, pipelineRuns, bindings \cup {binding},
                            calls \o s.calls \o c.calls)

\* Mutant of EnsureSnapshotEnvironmentBindingExists: an admission without an
\* environment is treated as any other.
EnsureSnapshotEnvironmentBindingExistsAnyEnvironment ==
    /\ pc = "EnsureSnapshotEnvironmentBindingExists"
    /\ IF ~HasSucceeded(a_release) \/ HasBeenDeployed(a_release)
       THEN Return(ContinueProcessing, a_release, release, pipelineRuns,
                   bindings, <<>>)
       ELSE \E r \in getActiveReleasePlanAdmission :
           IF r.err # Nil
           THEN Return(RequeueWithError(r.err), a_release, release,
                       pipelineRuns, bindings, r.calls)
           ELSE \E oEnvironment \in GetOutcomes :
           IF oEnvironment # Ok
           THEN Return(RequeueWithError(oEnvironment), a_release, release,
                       pipelineRuns, bindings,
                       r.calls \o <<Call("GetEnvironment", oEnvironment)>>)
           ELSE \E l \in getSnapshotEnvironmentBinding(Environment(r.rpa), r.rpa) :
           LET made == r.calls \o <<Call("GetEnvironment", Ok)>> \o l.calls
           IN  IF l.err # Nil /\ ~IsNotFound(l.err)
               THEN Return(RequeueWithError(l.err), a_release, release,
                           pipelineRuns, bindings, made)
               ELSE IF l.binding = NoBinding
               THEN createAndRecordBinding(Environment(r.rpa), made)
               ELSE Return(ContinueProcessing, a_release, release,
                           pipelineRuns, bindings, made)

\* Mutant of EnsureSnapshotEnvironmentBindingExists: the operation does not
\* wait for the Release to succeed.
EnsureSnapshotEnvironmentBindingExistsEarly ==
    /\ pc = "EnsureSnapshotEnvironmentBindingExists"
    /\ IF HasBeenDeployed(a_release)
       THEN Return(ContinueProcessing, a_release, release, pipelineRuns,
                   bindings, <<>>)
       ELSE \E r \in getActiveReleasePlanAdmission :
           IF r.err # Nil
           THEN Return(RequeueWithError(r.err), a_release, release,
                       pipelineRuns, bindings, r.calls)
           ELSE IF r.rpa.environment = NoEnvironment
           THEN Return(ContinueProcessing, a_release, release, pipelineRuns,
                       bindings, r.calls)
           ELSE \E oEnvironment \in GetOutcomes :
           IF oEnvironment # Ok
           THEN Return(RequeueWithError(oEnvironment), a_release, release,
                       pipelineRuns, bindings,
                       r.calls \o <<Call("GetEnvironment", oEnvironment)>>)
           ELSE \E l \in getSnapshotEnvironmentBinding(Environment(r.rpa), r.rpa) :
           LET made == r.calls \o <<Call("GetEnvironment", Ok)>> \o l.calls
           IN  IF l.err # Nil /\ ~IsNotFound(l.err)
               THEN Return(RequeueWithError(l.err), a_release, release,
                           pipelineRuns, bindings, made)
               ELSE IF l.binding = NoBinding
               THEN createAndRecordBinding(Environment(r.rpa), made)
               ELSE Return(ContinueProcessing, a_release, release,
                           pipelineRuns, bindings, made)

EnsureSnapshotEnvironmentBindingExists ==
    /\ pc = "EnsureSnapshotEnvironmentBindingExists"
    /\ IF ~HasSucceeded(a_release) \/ HasBeenDeployed(a_release)
       THEN Return(ContinueProcessing, a_release, release, pipelineRuns,
                   bindings, <<>>)
       ELSE \E r \in getActiveReleasePlanAdmission :
           IF r.err # Nil
           THEN Return(RequeueWithError(r.err), a_release, release,
                       pipelineRuns, bindings, r.calls)
           ELSE IF r.rpa.environment = NoEnvironment
           THEN Return(ContinueProcessing, a_release, release, pipelineRuns,
                       bindings, r.calls)
           ELSE \E oEnvironment \in GetOutcomes :
           IF oEnvironment # Ok
           THEN Return(RequeueWithError(oEnvironment), a_release, release,
                       pipelineRuns, bindings,
                       r.calls \o <<Call("GetEnvironment", oEnvironment)>>)
           ELSE \E l \in getSnapshotEnvironmentBinding(Environment(r.rpa), r.rpa) :
           LET made == r.calls \o <<Call("GetEnvironment", Ok)>> \o l.calls
           IN  IF l.err # Nil /\ ~IsNotFound(l.err)
               THEN Return(RequeueWithError(l.err), a_release, release,
                           pipelineRuns, bindings, made)
               ELSE IF l.binding = NoBinding
               THEN createAndRecordBinding(Environment(r.rpa), made)
               ELSE Return(ContinueProcessing, a_release, release,
                           pipelineRuns, bindings, made)

\* strings.Split(s, sep) for a separator of one character: the parts of s
\* between the separators.
RECURSIVE Split(_, _)
Split(s, sep) ==
    IF \A i \in 1..Len(s) : s[i] # sep
    THEN <<s>>
    ELSE LET k == CHOOSE i \in 1..Len(s) :
                    s[i] = sep /\ \A j \in 1..(i - 1) : s[j] # sep
         IN  <<SubSeq(s, 1, k - 1)>> \o Split(SubSeq(s, k + 1, Len(s)), sep)

\* Mutant of getSnapshotEnvironmentBindingFromReleaseStatus: a reference of
\* more than two parts is read as its first two.
getSnapshotEnvironmentBindingFromReleaseStatusLenient(r) ==
    LET bindingNamespacedName == Split(r.status.snapshotEnvironmentBinding,
                                       Separator)
    IN  IF Len(bindingNamespacedName) < 2
        THEN {[binding |-> NoBinding, err |-> ErrInvalidNamespacedName,
               calls |-> <<>>]}
        ELSE LET named == {b \in bindings :
                              /\ b.namespace = bindingNamespacedName[1]
                              /\ b.name = bindingNamespacedName[2]}
             IN  {[binding |-> NoBinding, err |-> ErrTransient,
                   calls |-> <<Call("GetBinding", ErrTransient)>>]}
                 \cup
                 (IF named = {}
                  THEN {[binding |-> NoBinding, err |-> ErrNotFound,
                         calls |-> <<Call("GetBinding", ErrNotFound)>>]}
                  ELSE {[binding |-> b, err |-> Nil,
                         calls |-> <<Call("GetBinding", Ok)>>] : b \in named})

\* getSnapshotEnvironmentBindingFromReleaseStatus: the binding the status
\* names, fetched from the store.
getSnapshotEnvironmentBindingFromReleaseStatus(r) ==
    LET bindingNamespacedName == Split(r.status.snapshotEnvironmentBinding,
                                       Separator)
    IN  IF Len(bindingNamespacedName) # 2
        THEN {[binding |-> NoBinding, err |-> ErrInvalidNamespacedName,
               calls |-> <<>>]}
        ELSE LET named == {b \in bindings :
                              /\ b.namespace = bindingNamespacedName[1]
                              /\ b.name = bindingNamespacedName[2]}
             IN  {[binding |-> NoBinding, err |-> ErrTransient,
                   calls |-> <<Call("GetBinding", ErrTransient)>>]}
                 \cup
                 (IF named = {}
                  THEN {[binding |-> NoBinding, err |-> ErrNotFound,
                         calls |-> <<Call("GetBinding", ErrNotFound)>>]}
                  ELSE {[binding |-> b, err |-> Nil,
                         calls |-> <<Call("GetBinding", Ok)>>] : b \in named})

\* Mutant of registerGitOpsDeploymentStatus: every condition marks the
\* Release as deploying.
registerGitOpsDeploymentStatusDeploying(r, binding) ==
    MarkDeploying(r, binding.reason, binding.message)

\* Mutant of registerGitOpsDeploymentStatus: the condition's message is not
\* passed on.
registerGitOpsDeploymentStatusNoMessage(r, binding) ==
    IF binding.deployed = ConditionUnknown
    THEN MarkDeploying(r, binding.reason, "")
    ELSE MarkDeployed(r, binding.deployed, binding.reason, "")

\* registerGitOpsDeploymentStatus of a binding that carries the
\* AllComponentsDeployed condition: the changed a.release.
registerGitOpsDeploymentStatus(r, binding) ==
    IF binding.deployed = ConditionUnknown
    THEN MarkDeploying(r, binding.reason, binding.message)
    ELSE MarkDeployed(r, binding.deployed, binding.reason, binding.message)

EnsureSnapshotEnvironmentBindingIsTracked ==
    /\ pc = "EnsureSnapshotEnvironmentBindingIsTracked"
    /\ IF \/ ~HasSucceeded(a_release)
          \/ a_release.status.snapshotEnvironmentBinding = <<>>
          \/ HasBeenDeployed(a_release)
       THEN Return(ContinueProcessing, a_release, release, pipelineRuns,
                   bindings, <<>>)
       ELSE \E g \in getSnapshotEnvironmentBindingFromReleaseStatus(a_release) :
               IF g.err # Nil
               THEN Return(RequeueWithError(g.err), a_release, release,
                           pipelineRuns, bindings, g.calls)
               ELSE IF g.binding.deployed = ConditionNone
               THEN Return(RequeueOnErrorOrContinue(Nil), a_release, release,
                           pipelineRuns, bindings, g.calls)
               ELSE PatchStatus(a_release,
                        registerGitOpsDeploymentStatus(a_release, g.binding),
                        Continue, pipelineRuns, bindings, g.calls)

-----------------------------------------------------------------------------
(* The user, the store, the pipeline engine and the deployment engine *)

\* The user asks for the deletion of the Release: the store sets the
\* deletion marker.
UserDeletesRelease ==
    /\ release.exists
    /\ ~release.deletionTimestamp
    /\ release' = [release EXCEPT !.deletionTimestamp = TRUE]
    /\ UNCHANGED <<a_release, pipelineRuns, bindings, admissions, created, pc,
                   result, log, fetched, rsFirst, rsSecond,
          passes>>

\* The store removes a Release that is marked for deletion and holds no
\* finalizer.
ReleaseRemoved ==
    /\ release.exists
    /\ release.deletionTimestamp
    /\ release.finalizers = {}
    /\ release' = [release EXCEPT !.exists = FALSE]
    /\ UNCHANGED <<a_release, pipelineRuns, bindings, admissions, created, pc,
                   result, log, fetched, rsFirst, rsSecond,
          passes>>

\* The engines act while a pass runs: a pass reads nothing of a PipelineRun
\* or of a binding before its first operation, so what an engine does between
\* two passes is seen as done at the start of the second.
Observed == pc # Idle /\ release.exists

\* The release PipelineRun ends, with success or with failure.
PipelineRunCompletes ==
    \E run \in ReleaseRuns :
        /\ Observed
        /\ run.succeeded = ConditionUnknown
        /\ \E end \in {[succeeded |-> ConditionTrue, message |-> ""],
                       [succeeded |-> ConditionFalse, message |-> "failed"]} :
              pipelineRuns' = (pipelineRuns \ {run}) \cup
                  {[run EXCEPT !.succeeded = end.succeeded,
                               !.message = end.message]}
        /\ UNCHANGED <<release, a_release, bindings, admissions, created, pc,
                       result, log, fetched, rsFirst, rsSecond,
          passes>>

\* Someone other than the adapter removes a release PipelineRun that is done.
PipelineRunPruned ==
    \E run \in ReleaseRuns :
        /\ Observed
        /\ RunIsDone(run)
        /\ pipelineRuns' = pipelineRuns \ {run}
        /\ UNCHANGED <<release, a_release, bindings, admissions, created, pc,
                       result, log, fetched, rsFirst, rsSecond,
          passes>>

\* The deployment engine reports on a binding of the application: the
\* AllComponentsDeployed condition appears as unknown, then turns true or
\* false.  No operation reads the condition before the Release has succeeded.
BindingReports ==
    \E b \in bindings :
        /\ Observed
        /\ HasSucceeded(release)
        /\ b.application = PlanApplication
        /\ \E next \in [deployed : {ConditionUnknown, ConditionTrue, ConditionFalse},
                        reason : {"CommitsUnsynced", "CommitsSynced"}] :
              /\ \/ b.deployed = ConditionNone
                 \/ b.deployed = ConditionUnknown /\ next.deployed # ConditionUnknown
              /\ next.reason = (IF next.deployed = ConditionTrue
                                THEN "CommitsSynced" ELSE "CommitsUnsynced")
              /\ bindings' = (bindings \ {b}) \cup
                    {[b EXCEPT !.deployed = next.deployed,
                               !.reason = next.reason,
                               !.message =
                                   IF next.deployed = ConditionTrue
                                   THEN "all components deployed"
                                   ELSE "components pending"]}
        /\ UNCHANGED <<release, a_release, pipelineRuns, admissions, created,
                       pc, result, log, fetched, rsFirst, rsSecond,
          passes>>

-----------------------------------------------------------------------------
(* Reconciliation of one Release *)

Pending == [err |-> "pending"]

\* The Releases of the concurrency study and their passes: none is running.
ConcurrentReleases == {ReleaseName, OtherReleaseName}
IdlePass == [at |-> Idle,
             environment |-> [namespace |-> <<>>, name |-> NoEnvironment],
             binding |-> NoBinding, reference |-> <<>>]
NoPasses == [r \in ConcurrentReleases |-> IdlePass]

\* A PipelineRun of another Release, and bindings that exist before the
\* Release deploys: one of another application, one of the application.
OtherRun ==
    [name |-> <<"p", "0">>, namespace |-> PlanTarget,
     releaseName |-> OtherReleaseName, releaseNamespace |-> ReleaseNamespace,
     succeeded |-> ConditionTrue, message |-> ""]

OtherBinding ==
    [name |-> <<"b", "0">>, namespace |-> PlanTarget,
     environment |-> EnvironmentName, application |-> OtherApplication,
     deployed |-> ConditionTrue, reason |-> "CommitsSynced",
     message |-> "all components deployed"]

EarlierBinding ==
    [name |-> <<"b", "9">>, namespace |-> PlanTarget,
     environment |-> EnvironmentName, application |-> PlanApplication,
     deployed |-> ConditionNone, reason |-> "", message |-> ""]

Init ==
    /\ release = NewRelease
    /\ a_release = NewRelease
    /\ fetched = NewRelease
    /\ pipelineRuns = {OtherRun}
    /\ bindings \in {{OtherBinding}, {OtherBinding, EarlierBinding}}
    /\ admissions \in AdmissionSets(MaxAdmissions, {PlanTarget},
                                    {PlanApplication}, {NoLabel, "false"})
    /\ created = [runs |-> 0, bindings |-> 0]
    /\ pc = Idle
    /\ result = [op |-> "none", res |-> "none"]
    /\ log = <<>>
    /\ rsFirst = Pending
    /\ rsSecond = Pending
    /\ passes = NoPasses

Next ==
    \/ Reconcile
    \/ EnsureFinalizersAreCalled
    \/ EnsureFinalizerIsAdded
    \/ EnsureReleasePlanAdmissionEnabled
    \/ EnsureReleasePipelineRunExists
    \/ EnsureReleasePipelineStatusIsTracked
    \/ EnsureSnapshotEnvironmentBindingExists
    \/ EnsureSnapshotEnvironmentBindingIsTracked
    \/ UserDeletesRelease
    \/ ReleaseRemoved
    \/ PipelineRunCompletes
    \/ PipelineRunPruned
    \/ BindingReports

Spec == Init /\ [][Next]_vars

-----------------------------------------------------------------------------
(* Resolution study.  A pass has reached the admission gate; the store     *)
(* holds any ReleasePlanAdmissions, of the plan's application and target   *)
(* or of others.  Either the pass goes on through the gate and the         *)
(* creation of the PipelineRun, or getActiveReleasePlanAdmission is run    *)
(* twice over the same store.                                              *)

AutoReleaseLabels == {NoLabel, "false", "true"}

AtTheGate == AddFinalizer(NewRelease, finalizerName)

InitResolve ==
    /\ release = AtTheGate
    /\ a_release = AtTheGate
    /\ fetched = AtTheGate
    /\ pipelineRuns = {OtherRun}
    /\ bindings = {OtherBinding}
    /\ admissions \in AdmissionSets(MaxListed, {PlanTarget, OtherNamespace},
                                    {PlanApplication, OtherApplication},
                                    AutoReleaseLabels)
    /\ created = [runs |-> 0, bindings |-> 0]
    /\ pc = "EnsureReleasePlanAdmissionEnabled"
    /\ result = [op |-> "EnsureFinalizerIsAdded", res |-> Continue]
    /\ log = <<>>
    /\ rsFirst = Pending
    /\ rsSecond = Pending
    /\ passes = NoPasses

\* What a resolution returned, and whether its store calls succeeded.
Resolved(r) ==
    [rpa |-> r.rpa, err |-> r.err,
     listed |-> \E i \in 1..Len(r.calls) :
                    r.calls[i] = Call("ListReleasePlanAdmissions", Ok)]

ResolveFirst ==
    /\ pc = "EnsureReleasePlanAdmissionEnabled"
    /\ rsFirst = Pending
    /\ \E r \in getActiveReleasePlanAdmission : rsFirst' = Resolved(r)
    /\ UNCHANGED <<release, a_release, pipelineRuns, bindings, admissions,
                   created, pc, result, log, fetched, rsSecond,
                   passes>>

ResolveSecond ==
    /\ rsFirst # Pending
    /\ rsSecond = Pending
    /\ \E r \in getActiveReleasePlanAdmission : rsSecond' = Resolved(r)
    /\ UNCHANGED <<release, a_release, pipelineRuns, bindings, admissions,
                   created, pc, result, log, fetched, rsFirst,
                   passes>>

PassTheGate ==
    /\ rsFirst = Pending
    /\ EnsureReleasePlanAdmissionEnabled

TriggerAfterTheGate ==
    /\ rsFirst = Pending
    /\ EnsureReleasePipelineRunExists

NextResolve ==
    \/ ResolveFirst
    \/ ResolveSecond
    \/ PassTheGate
    \/ TriggerAfterTheGate

SpecResolve == InitResolve /\ [][NextResolve]_vars

-----------------------------------------------------------------------------
(* Reference study.  A pass on a succeeded Release has reached the binding *)
(* operations; the store holds a binding of any namespace and name without  *)
(* the separator.  Either the reference to the binding is written as       *)
(* EnsureSnapshotEnvironmentBindingExists writes it, or the status holds    *)
(* any string; EnsureSnapshotEnvironmentBindingIsTracked then reads it.     *)

MaxPart == 1
MaxReference == 3

PartChars == {"x", "y"}
ReferenceChars == {"x", Separator}

\* The namespaces and names: the strings without the separator.
Parts == UNION {[1..n -> PartChars] : n \in 0..MaxPart}

\* The strings a status may hold as its reference.
References == UNION {[1..n -> ReferenceChars] : n \in 1..MaxReference}

SucceededRelease ==
    MarkSucceeded(
        [MarkRunning(AtTheGate) EXCEPT !.status.completionTime = Now(NoTime)])

InitReference ==
    /\ release = SucceededRelease
    /\ a_release = SucceededRelease
    /\ fetched = SucceededRelease
    /\ pipelineRuns = {}
    /\ bindings \in {{[name |-> name, namespace |-> namespace,
                       environment |-> EnvironmentName,
                       application |-> PlanApplication,
                       deployed |-> ConditionTrue,
                       reason |-> "CommitsSynced",
                       message |-> "all components deployed"]} :
                        namespace \in Parts, name \in Parts}
    /\ admissions = {}
    /\ created = [runs |-> 0, bindings |-> 0]
    /\ pc = "EnsureSnapshotEnvironmentBindingExists"
    /\ result = [op |-> "EnsureReleasePipelineStatusIsTracked",
                 res |-> Continue]
    /\ log = <<>>
    /\ rsFirst = Pending
    /\ rsSecond = Pending
    /\ passes = NoPasses

\* The end of EnsureSnapshotEnvironmentBindingExists for a binding it has
\* created: the reference is written and the status patched.
RecordReference ==
    /\ pc = "EnsureSnapshotEnvironmentBindingExists"
    /\ \E binding \in bindings :
          PatchStatus(a_release,
              [a_release EXCEPT
                  !.status.snapshotEnvironmentBinding =
                      NamespacedName(binding.namespace, binding.name)],
              Continue, pipelineRuns, bindings, <<>>)

\* The status of the Release read by the pass holds a reference that the
\* adapter did not write.
ReferenceStored ==
    /\ pc = "EnsureSnapshotEnvironmentBindingExists"
    /\ \E reference \in References :
          LET stored == [release EXCEPT
                            !.status.snapshotEnvironmentBinding = reference]
          IN  Return(ContinueProcessing, stored, stored, pipelineRuns,
                     bindings, <<>>)

TrackReference == EnsureSnapshotEnvironmentBindingIsTracked

NextReference ==
    \/ RecordReference
    \/ ReferenceStored
    \/ TrackReference

SpecReference == InitReference /\ [][NextReference]_vars

-----------------------------------------------------------------------------
(* What the log of a pass tells *)

\* The entries of operation op in log l.
LogOf(l, op) == SelectSeq(l, LAMBDA e : e.op = op)

\* Log l holds the call with the outcome.
Logged(l, name, outcome) ==
    \E i \in 1..Len(l) : l[i].call = name /\ l[i].out = outcome

\* Log l holds the call, whatever its outcome.
Called(l, name) == \E i \in 1..Len(l) : l[i].call = name

\* The store calls of log l, without what the adapter's functions returned.
StoreCalls(l) == SelectSeq(l, LAMBDA e : e.call # "getActiveReleasePlanAdmission")

\* A store call of log l failed.
SomeCallFailed(l) ==
    \E i \in 1..Len(StoreCalls(l)) :
        StoreCalls(l)[i].out \notin {Ok, "none", "found"}

\* The operation at pc takes its step.
Runs(op) == pc = op /\ pc' # pc

Names(objects) == {o.name : o \in objects}

\* The bindings of the plan's application in the environment.
ReleaseBindings ==
    {b \in bindings : /\ b.namespace = PlanTarget
                      /\ b.environment = EnvironmentName
                      /\ b.application = PlanApplication}

-----------------------------------------------------------------------------
(* Recovery study.  One Release with one enabled admission that declares   *)
(* an environment; nobody deletes the Release or removes its PipelineRun.  *)
(* The driver runs pass after pass, every operation reached again and      *)
(* again has its store calls succeed again and again, and the engines go   *)
(* on with the PipelineRun and the binding.                                *)

InitRecover ==
    /\ release = NewRelease
    /\ a_release = NewRelease
    /\ fetched = NewRelease
    /\ pipelineRuns = {OtherRun}
    /\ bindings \in {{OtherBinding}, {OtherBinding, EarlierBinding}}
    /\ admissions = {Admission(1, PlanTarget, PlanApplication, NoLabel)}
    /\ created = [runs |-> 0, bindings |-> 0]
    /\ pc = Idle
    /\ result = [op |-> "none", res |-> "none"]
    /\ log = <<>>
    /\ rsFirst = Pending
    /\ rsSecond = Pending
    /\ passes = NoPasses

NextRecover ==
    \/ Reconcile
    \/ EnsureFinalizersAreCalled
    \/ EnsureFinalizerIsAdded
    \/ EnsureReleasePlanAdmissionEnabled
    \/ EnsureReleasePipelineRunExists
    \/ EnsureReleasePipelineStatusIsTracked
    \/ EnsureSnapshotEnvironmentBindingExists
    \/ EnsureSnapshotEnvironmentBindingIsTracked
    \/ PipelineRunCompletes
    \/ BindingReports

\* The step of the operation at pc made no store call that failed.
CallsSucceed == ~SomeCallFailed(LogOf(log', pc))

\* The driver re-invokes; the store calls of an operation that is reached
\* again and again succeed again and again; the engines are not starved.
FairRecover ==
    /\ WF_vars(Reconcile)
    /\ SF_vars(EnsureFinalizersAreCalled /\ CallsSucceed)
    /\ SF_vars(EnsureFinalizerIsAdded /\ CallsSucceed)
    /\ SF_vars(EnsureReleasePlanAdmissionEnabled /\ CallsSucceed)
    /\ SF_vars(EnsureReleasePipelineRunExists /\ CallsSucceed)
    /\ SF_vars(EnsureReleasePipelineStatusIsTracked /\ CallsSucceed)
    /\ SF_vars(EnsureSnapshotEnvironmentBindingExists /\ CallsSucceed)
    /\ SF_vars(EnsureSnapshotEnvironmentBindingIsTracked /\ CallsSucceed)
    /\ SF_vars(PipelineRunCompletes)
    /\ SF_vars(BindingReports)

SpecRecover == InitRecover /\ [][NextRecover]_vars /\ FairRecover

-----------------------------------------------------------------------------
(* Concurrency study.  Two succeeded Releases of the same application are  *)
(* admitted by the same admission into the same environment, and the       *)
(* driver runs a pass of each, one pass of a Release at a time.  Each pass *)
(* is at EnsureSnapshotEnvironmentBindingExists, and the store calls of    *)
(* the operation are steps of their own: the reads up to the lookup, the   *)
(* reads and the Create of the create path, the patch of the status.       *)

InitConcurrent ==
    /\ release = SucceededRelease
    /\ a_release = SucceededRelease
    /\ fetched = SucceededRelease
    /\ pipelineRuns = {}
    /\ bindings \in {{}, {OtherBinding}, {OtherBinding, EarlierBinding}}
    /\ admissions = {Admission(1, PlanTarget, PlanApplication, NoLabel)}
    /\ created = [runs |-> 0, bindings |-> 0]
    /\ pc = "EnsureSnapshotEnvironmentBindingExists"
    /\ result = [op |-> "none", res |-> "none"]
    /\ log = <<>>
    /\ rsFirst = Pending
    /\ rsSecond = Pending
    /\ passes = NoPasses

\* The pass of the Release is over; what it recorded stays in the status.
Ended(r, reference) ==
    passes' = [passes EXCEPT ![r] = [IdlePass EXCEPT !.reference = reference]]

\* The driver starts a pass of the Release; the operations before
\* EnsureSnapshotEnvironmentBindingExists leave a succeeded Release alone.
BeginPass(r) ==
    /\ passes[r].at = Idle
    /\ passes' = [passes EXCEPT ![r].at = "lookup"]
    /\ UNCHANGED <<release, a_release, pipelineRuns, bindings, admissions,
                   created, pc, result, log, fetched, rsFirst, rsSecond>>

\* EnsureSnapshotEnvironmentBindingExists up to the lookup of the binding:
\* the pass goes on to the create path when no binding is found.
LookUpBinding(r) ==
    /\ passes[r].at = "lookup"
    /\ \E res \in getActiveReleasePlanAdmission :
          IF res.err # Nil \/ res.rpa.environment = NoEnvironment
          THEN Ended(r, passes[r].reference)
          ELSE \E oEnvironment \in GetOutcomes :
          IF oEnvironment # Ok
          THEN Ended(r, passes[r].reference)
          ELSE \E l \in getSnapshotEnvironmentBinding(Environment(res.rpa),
                                                      res.rpa) :
          IF (l.err # Nil /\ ~IsNotFound(l.err)) \/ l.binding # NoBinding
          THEN Ended(r, passes[r].reference)
          ELSE passes' = [passes EXCEPT
                             ![r].at = "create",
                             ![r].environment = Environment(res.rpa)]
    /\ UNCHANGED <<release, a_release, pipelineRuns, bindings, admissions,
                   created, pc, result, log, fetched, rsFirst, rsSecond>>

\* The create path up to the Create of the binding.
CreateBinding(r) ==
    /\ passes[r].at = "create"
    /\ \E s \in syncResources :
          IF s.err # Nil
          THEN Ended(r, passes[r].reference) /\ UNCHANGED <<bindings, created>>
          ELSE \E c \in createSnapshotEnvironmentBinding(passes[r].environment) :
          IF c.err # Nil
          THEN Ended(r, passes[r].reference) /\ UNCHANGED <<bindings, created>>
          ELSE LET binding ==
                       NewSnapshotEnvironmentBinding(passes[r].environment)
               IN  /\ created.bindings < MaxBindings
                   /\ bindings' = bindings \cup {binding}
                   /\ created' = [created EXCEPT !.bindings = @ + 1]
                   /\ passes' = [passes EXCEPT ![r].at = "patch",
                                               ![r].binding = binding]
    /\ UNCHANGED <<release, a_release, pipelineRuns, admissions, pc, result,
                   log, fetched, rsFirst, rsSecond>>

\* The patch that records the reference to the binding created.
RecordBinding(r) ==
    /\ passes[r].at = "patch"
    /\ \E o \in PatchOutcomes(FALSE) :
          Ended(r, IF o = Ok
                   THEN NamespacedName(passes[r].binding.namespace,
                                       passes[r].binding.name)
                   ELSE passes[r].reference)
    /\ UNCHANGED <<release, a_release, pipelineRuns, bindings, admissions,
                   created, pc, result, log, fetched, rsFirst, rsSecond>>

NextConcurrent ==
    \E r \in ConcurrentReleases :
        \/ BeginPass(r)
        \/ LookUpBinding(r)
        \/ CreateBinding(r)
        \/ RecordBinding(r)

SpecConcurrent == InitConcurrent /\ [][NextConcurrent]_vars

-----------------------------------------------------------------------------
(* Claims *)

\* C1: at most one PipelineRun labelled for the Release exists, however often
\* EnsureReleasePipelineRunExists is invoked; a PipelineRun is created only
\* by a step of EnsureReleasePipelineRunExists whose label lookup returned
\* none, and one at a time.
C1_IdempotentExecutionCreation ==
    [][/\ Cardinality(ReleaseRuns') <= 1
       /\ Names(pipelineRuns') \ Names(pipelineRuns) # {} =>
            /\ pc = "EnsureReleasePipelineRunExists"
            /\ ReleaseRuns = {}
            /\ Logged(LogOf(log', pc), "ListPipelineRuns", "none")
            /\ Cardinality(Names(pipelineRuns') \ Names(pipelineRuns)) = 1]_vars

\* C1 witness: EnsureReleasePipelineRunExists has run again after a pass that
\* created the PipelineRun and failed to patch the status: it found the
\* PipelineRun and went on.
C1_Witness ==
    /\ result = [op |-> "EnsureReleasePipelineRunExists", res |-> Continue]
    /\ Logged(log, "ListPipelineRuns", "found")
    /\ Cardinality(ReleaseRuns) = 1
    /\ created.runs = 1
    /\ ~HasStarted(release)

\* C2: at most one binding of the (environment, application) pair exists,
\* however often EnsureSnapshotEnvironmentBindingExists is invoked; a binding
\* is created only by a step of that operation, on a succeeded Release, whose
\* lookup returned none.
C2_IdempotentBindingCreation ==
    [][/\ Cardinality(ReleaseBindings') <= 1
       /\ Names(bindings') \ Names(bindings) # {} =>
            /\ pc = "EnsureSnapshotEnvironmentBindingExists"
            /\ HasSucceeded(a_release)
            /\ ReleaseBindings = {}
            /\ Logged(LogOf(log', pc), "ListBindings", "none")
            /\ Cardinality(Names(bindings') \ Names(bindings)) = 1]_vars

\* C2 witness: EnsureSnapshotEnvironmentBindingExists has run again after a
\* pass that created the binding and failed to patch the status: it found the
\* binding and went on.
C2_Witness ==
    /\ result = [op |-> "EnsureSnapshotEnvironmentBindingExists",
                 res |-> Continue]
    /\ Logged(log, "ListBindings", "found")
    /\ created.bindings = 1
    /\ Cardinality(ReleaseBindings) = 1
    /\ release.status.snapshotEnvironmentBinding = <<>>

\* C3: whenever the Release is marked for deletion and no longer carries the
\* finalizer, no PipelineRun labelled for the Release exists.
C3_CleanupBeforeDelete ==
    (release.deletionTimestamp /\ ~ContainsFinalizer(release, finalizerName))
        => ReleaseRuns = {}

\* C3 witness: the Release is gone after a pass that deleted the PipelineRun
\* the adapter had created for it.
C3_Witness ==
    /\ ~release.exists
    /\ created.runs >= 1
    /\ Logged(log, "DeletePipelineRun", Ok)
    /\ Logged(log, "PatchRelease", Ok)

\* A store call of log l failed; a Delete that finds the object gone has not.
SomeCallFailedButDeleteNotFound(l) ==
    \E i \in 1..Len(l) :
        /\ l[i].out \in {ErrTransient, ErrForbidden, ErrNotFound}
        /\ ~(l[i].call = "DeletePipelineRun" /\ l[i].out = ErrNotFound)

\* C4: when EnsureFinalizersAreCalled runs on a Release marked for deletion
\* that carries the finalizer: if the finalizer leaves the stored Release,
\* the patch that removed it came after the lookup and after the delete of
\* the PipelineRun found, and no PipelineRun of the Release is left; if the
\* lookup, the delete (other than not-found) or the patch fails, the result
\* is requeue-with-error and the stored Release still carries the finalizer.
C4_FinalizerOrdering ==
    [][(/\ Runs("EnsureFinalizersAreCalled")
        /\ a_release.deletionTimestamp
        /\ ContainsFinalizer(a_release, finalizerName)) =>
         LET l == log'
         IN  /\ ContainsFinalizer(release, finalizerName)
             /\ ~ContainsFinalizer(release', finalizerName) =>
                   /\ result'.res = Requeue
                   /\ l[Len(l)] = [op |-> pc, call |-> "PatchRelease", out |-> Ok]
                   /\ \A i \in 1..(Len(l) - 1) : l[i].call # "PatchRelease"
                   /\ Logged(l, "ListPipelineRuns", "found") =>
                         Called(l, "DeletePipelineRun")
                   /\ ReleaseRuns' = {}
             /\ SomeCallFailedButDeleteNotFound(l) =>
                   /\ result'.res = RequeueError
                   /\ ContainsFinalizer(release', finalizerName)]_vars

\* C4 witness: EnsureFinalizersAreCalled has deleted the PipelineRun of the
\* Release and then removed the finalizer.
C4_Witness ==
    /\ result = [op |-> "EnsureFinalizersAreCalled", res |-> Requeue]
    /\ log = <<[op |-> "EnsureFinalizersAreCalled", call |-> "ListPipelineRuns",
                out |-> "found"],
               [op |-> "EnsureFinalizersAreCalled", call |-> "DeletePipelineRun",
                out |-> Ok],
               [op |-> "EnsureFinalizersAreCalled", call |-> "PatchRelease",
                out |-> Ok]>>
    /\ ~ContainsFinalizer(release, finalizerName)

\* C5: in a pass that starts with the deletion marker set,
\* EnsureFinalizersAreCalled returns requeue or requeue-with-error and ends
\* the pass: no other operation runs, nothing is created, the status is not
\* patched; without the finalizer it makes no store call at all and returns
\* requeue.  Without the deletion marker it returns continue and changes
\* nothing.
C5_DeletionPreemptsTheChain ==
    [][/\ Runs("EnsureFinalizersAreCalled") =>
            IF a_release.deletionTimestamp
            THEN /\ result'.res \in {Requeue, RequeueError}
                 /\ pc' = Idle
                 /\ bindings' = bindings
                 /\ pipelineRuns' \subseteq pipelineRuns
                 /\ release'.status = release.status
                 /\ ~Called(log', "PatchReleaseStatus")
                 /\ ~Called(log', "CreatePipelineRun")
                 /\ ~Called(log', "CreateBinding")
                 /\ ~ContainsFinalizer(a_release, finalizerName) =>
                       /\ result'.res = Requeue
                       /\ log' = <<>>
                       /\ UNCHANGED <<release, pipelineRuns>>
            ELSE /\ result'.res = Continue
                 /\ log' = log
                 /\ UNCHANGED <<release, a_release, pipelineRuns, bindings>>
       /\ fetched'.deletionTimestamp =>
            /\ pc' \in {Idle, "EnsureFinalizersAreCalled"}
            /\ \A i \in 1..Len(log') : log'[i].op = "EnsureFinalizersAreCalled"]_vars

\* C5 witness: a pass that started on a Release marked for deletion and
\* without the finalizer has ended with requeue.
C5_Witness ==
    /\ fetched.deletionTimestamp
    /\ ~ContainsFinalizer(fetched, finalizerName)
    /\ result = [op |-> "EnsureFinalizersAreCalled", res |-> Requeue]
    /\ pc = Idle
    /\ log = <<>>

\* The admissions that match the plan's target, origin and application.
Candidates ==
    {x \in admissions : /\ x.namespace = ReleasePlan.target
                        /\ x.origin = ReleasePlan.namespace
                        /\ x.application = ReleasePlan.application}

\* The admission gate was the last operation to run, and it listed the
\* admissions.
GateRan ==
    /\ result.op = "EnsureReleasePlanAdmissionEnabled"
    /\ Logged(log, "ListReleasePlanAdmissions", Ok)

\* C6: with two or more matching admissions, a resolution that listed them
\* fails with the "multiple" error and returns none, and the gate marks the
\* Release invalid with the validation-error reason and that message and
\* does not continue.
C6_AdmissionUniqueness ==
    Cardinality(Candidates) >= 2 =>
        /\ (rsFirst # Pending /\ rsFirst.listed) =>
              rsFirst.err = ErrMultiple /\ rsFirst.rpa = NoAdmission
        /\ GateRan =>
              /\ result.res \in {Stop, RequeueError}
              /\ a_release.status.succeeded = ConditionFalse
              /\ a_release.status.reason = ReleaseReasonValidationError
              /\ a_release.status.message = ErrMultiple

C8_ZeroCandidates ==
    /\ (rsFirst # Pending /\ rsFirst.listed /\ Candidates = {}) =>
          rsFirst.err = ErrNoAdmission /\ rsFirst.rpa = NoAdmission
    /\ (GateRan /\ Candidates = {}) =>
          Logged(log, "getActiveReleasePlanAdmission", ErrNoAdmission)
    /\ (/\ result.op = "EnsureReleasePlanAdmissionEnabled"
        /\ \E e \in {ErrNoAdmission, ErrNotFound, ErrTransient} :
              Logged(log, "getActiveReleasePlanAdmission", e)) =>
          /\ result.res = Continue
          /\ pc = "EnsureReleasePipelineRunExists"
          /\ a_release = fetched
          /\ release = fetched
          /\ ~Called(log, "PatchReleaseStatus")
          /\ ~Called(log, "PatchRelease")

\* C8 witness: admissions exist and none matches; the gate has returned
\* continue on the "no admission found" error.
C8_Witness ==
    /\ result = [op |-> "EnsureReleasePlanAdmissionEnabled", res |-> Continue]
    /\ Logged(log, "getActiveReleasePlanAdmission", ErrNoAdmission)
    /\ Candidates = {}
    /\ admissions # {}
    /\ release.status = EmptyStatus

\* C9: two resolutions that listed the same admissions return the same
\* admission or the same error.
C9_DeterministicResolution ==
    (/\ rsFirst # Pending
     /\ rsSecond # Pending
     /\ rsFirst.listed
     /\ rsSecond.listed) =>
        rsFirst.err = rsSecond.err /\ rsFirst.rpa = rsSecond.rpa

\* C10: when EnsureReleasePipelineRunExists runs with no PipelineRun of the
\* Release in the store, exactly one enabled admission and every store call
\* succeeding, it creates exactly one PipelineRun labelled for the Release
\* and stores the status as running with the PipelineRun, the strategy and
\* the target.  A pass that went through the whole chain with every store
\* call succeeding and found no PipelineRun has created exactly one, and
\* leaves the Release started with the three fields set, and running as long
\* as the PipelineRun is not done.
C10_ScenarioA ==
    [][/\ (/\ Runs("EnsureReleasePipelineRunExists")
           /\ ReleaseRuns = {}
           /\ \E x \in Candidates : Candidates = {x} /\ x.autoRelease # "false"
           /\ ~SomeCallFailed(LogOf(log', pc))) =>
             \E run \in pipelineRuns' :
                /\ run \notin pipelineRuns
                /\ pipelineRuns' = pipelineRuns \cup {run}
                /\ run.releaseName = ReleaseName
                /\ run.releaseNamespace = ReleaseNamespace
                /\ result'.res = Continue
                /\ release'.status.succeeded = ConditionUnknown
                /\ release'.status.reason = ReleaseReasonRunning
                /\ release'.status.startTime
                /\ release'.status.releasePipelineRun =
                      NamespacedName(run.namespace, run.name)
                /\ release'.status.releaseStrategy =
                      NamespacedName(PlanTarget, StrategyName)
                /\ release'.status.target = run.namespace
                /\ a_release' = release'
       /\ (/\ pc' = Idle
           /\ result'.res = Continue
           /\ ~SomeCallFailed(log')
           /\ Logged(LogOf(log', "EnsureReleasePipelineRunExists"),
                     "ListPipelineRuns", "none")) =>
             /\ Cardinality({i \in 1..Len(log') :
                               log'[i].call = "CreatePipelineRun"}) = 1
             /\ HasStarted(release')
             /\ release'.status.releasePipelineRun # <<>>
             /\ release'.status.releaseStrategy # <<>>
             /\ release'.status.target # <<>>
             /\ (\E run \in ReleaseRuns' : ~RunIsDone(run)) =>
                   release'.status.reason = ReleaseReasonRunning]_vars

\* C10 witness: a pass on a Release not marked for deletion has gone through
\* the whole chain, every store call succeeding, and has created the
\* PipelineRun; the status is running.
C10_Witness ==
    /\ pc = Idle
    /\ result = [op |-> "EnsureSnapshotEnvironmentBindingIsTracked",
                 res |-> Continue]
    /\ ~fetched.deletionTimestamp
    /\ ~SomeCallFailed(log)
    /\ Logged(log, "CreatePipelineRun", Ok)
    /\ Cardinality(ReleaseRuns) = 1
    /\ release.status.reason = ReleaseReasonRunning
    /\ release.status.releaseStrategy = NamespacedName(PlanTarget, StrategyName)

C12_ForwardOnly ==
    [][(/\ IsDone(release)
        /\ release.status.reason \in {ReleaseReasonSucceeded,
                                      ReleaseReasonPipelineFailed}) =>
            /\ release'.status.succeeded = release.status.succeeded
            /\ release'.status.reason = release.status.reason
            /\ release'.status.completionTime = release.status.completionTime
            /\ Names(ReleaseRuns') \subseteq Names(ReleaseRuns)]_vars

\* The admissions that match the plan declare no environment.
NoCandidateDeploys == \A x \in Candidates : x.environment = NoEnvironment

\* C13: when EnsureSnapshotEnvironmentBindingExists runs on a Release that has
\* succeeded and is not deployed, and the admission it resolved declares no
\* environment, it returns continue; its only calls are those of the
\* resolution, and it changes neither the bindings nor the Release.  While
\* the admission declares no environment, no step creates a binding and the
\* binding reference of the Release stays empty.
C13_ScenarioC ==
    [][/\ (/\ Runs("EnsureSnapshotEnvironmentBindingExists")
           /\ HasSucceeded(a_release)
           /\ ~HasBeenDeployed(a_release)
           /\ NoCandidateDeploys
           /\ Logged(LogOf(log', pc), "getActiveReleasePlanAdmission", Nil)) =>
             /\ result'.res = Continue
             /\ bindings' = bindings
             /\ release' = release
             /\ a_release' = a_release
             /\ \A i \in 1..Len(LogOf(log', pc)) :
                   LogOf(log', pc)[i].call \in
                      {"GetReleasePlan", "ListReleasePlanAdmissions",
                       "getActiveReleasePlanAdmission"}
       /\ NoCandidateDeploys =>
             /\ Names(bindings') = Names(bindings)
             /\ created'.bindings = 0
             /\ release'.status.snapshotEnvironmentBinding = <<>>
             /\ a_release'.status.snapshotEnvironmentBinding = <<>>]_vars

\* C13 witness: the Release has succeeded, the admission declares no
\* environment, and EnsureSnapshotEnvironmentBindingExists has resolved it and
\* returned continue.
C13_Witness ==
    /\ result = [op |-> "EnsureSnapshotEnvironmentBindingExists",
                 res |-> Continue]
    /\ HasSucceeded(release)
    /\ Candidates # {}
    /\ NoCandidateDeploys
    /\ Logged(LogOf(log, "EnsureSnapshotEnvironmentBindingExists"),
              "getActiveReleasePlanAdmission", Nil)
    /\ created.bindings = 0

\* The binding the reference in the status of r names.
Referenced(r) ==
    {b \in bindings :
        NamespacedName(b.namespace, b.name) = r.status.snapshotEnvironmentBinding}

\* C14: when EnsureSnapshotEnvironmentBindingExists runs on a Release that has
\* succeeded and is not deployed, the admission declares an environment, no
\* binding of the environment and the application exists and every store
\* call succeeds, it creates exactly one binding and stores its namespaced
\* name in the status, changing nothing else of the status.  When
\* EnsureSnapshotEnvironmentBindingIsTracked then runs with the referenced
\* binding reporting AllComponentsDeployed true and every store call
\* succeeding, it stores the Release as deployed.
C14_ScenarioD ==
    [][/\ (/\ Runs("EnsureSnapshotEnvironmentBindingExists")
           /\ HasSucceeded(a_release)
           /\ ~HasBeenDeployed(a_release)
           /\ \E x \in Candidates :
                 Candidates = {x} /\ x.environment # NoEnvironment
           /\ ReleaseBindings = {}
           /\ ~SomeCallFailed(LogOf(log', pc))) =>
             \E b \in bindings' :
                /\ b \notin bindings
                /\ bindings' = bindings \cup {b}
                /\ ReleaseBindings' = {b}
                /\ created'.bindings = created.bindings + 1
                /\ result'.res = Continue
                /\ release'.status =
                      [release.status EXCEPT !.snapshotEnvironmentBinding =
                          NamespacedName(b.namespace, b.name)]
                /\ a_release' = release'
       /\ (/\ Runs("EnsureSnapshotEnvironmentBindingIsTracked")
           /\ HasSucceeded(a_release)
           /\ ~HasBeenDeployed(a_release)
           /\ \E b \in Referenced(a_release) : b.deployed = ConditionTrue
           /\ ~SomeCallFailed(LogOf(log', pc))) =>
             /\ result'.res = Continue
             /\ release'.status.deployed = ConditionTrue
             /\ release'.status.snapshotEnvironmentBinding =
                   release.status.snapshotEnvironmentBinding
             /\ HasSucceeded(release')]_vars

\* C14 witness: the pass has created the one binding of the Release, the
\* binding has reported AllComponentsDeployed true, and the Release is stored
\* as deployed with the binding's name.
C14_Witness ==
    /\ result = [op |-> "EnsureSnapshotEnvironmentBindingIsTracked",
                 res |-> Continue]
    /\ created.bindings = 1
    /\ \E b \in ReleaseBindings :
          /\ ReleaseBindings = {b}
          /\ b.deployed = ConditionTrue
          /\ release.status.snapshotEnvironmentBinding =
                NamespacedName(b.namespace, b.name)
    /\ HasSucceeded(release)
    /\ release.status.deployed = ConditionTrue

\* C15: once the stored Release is deployed, no operation of the chain run
\* on a Release that is not being deleted creates a binding or patches the
\* status; EnsureSnapshotEnvironmentBindingExists and
\* EnsureSnapshotEnvironmentBindingIsTracked return continue and make no
\* store call.
C15_NoRedundantDeployment ==
    [][(/\ release.status.deployed = ConditionTrue
        /\ ~release.deletionTimestamp
        /\ pc # Idle
        /\ pc' # pc) =>
            /\ created'.bindings = created.bindings
            /\ Names(bindings') = Names(bindings)
            /\ ~Called(LogOf(log', pc), "PatchReleaseStatus")
            /\ release'.status = release.status
            /\ pc \in {"EnsureSnapshotEnvironmentBindingExists",
                       "EnsureSnapshotEnvironmentBindingIsTracked"} =>
                  /\ result'.res = Continue
                  /\ LogOf(log', pc) = <<>>]_vars

\* A call of log l other than a patch of the Release failed with an error
\* that is not a not-found.
SomeTransientFailure(l) ==
    \E i \in 1..Len(l) :
        /\ l[i].call \notin {"PatchReleaseStatus", "PatchRelease",
                             "getActiveReleasePlanAdmission"}
        /\ l[i].out = ErrTransient

\* C16: an operation in which a store call other than a patch fails with an
\* error that is not a not-found returns requeue-with-error, attempts no
\* status patch and leaves the status of the Release, stored and in memory,
\* as it was.
C16_TransientErrorsNeverMutate ==
    [][(/\ pc # Idle
        /\ pc' # pc
        /\ SomeTransientFailure(LogOf(log', pc))) =>
            /\ result'.res = RequeueError
            /\ ~Called(LogOf(log', pc), "PatchReleaseStatus")
            /\ release'.status = release.status
            /\ a_release'.status = a_release.status]_vars

\* The number of separators in string s.
Separators(s) == Cardinality({i \in 1..Len(s) : s[i] = Separator})

\* C17: the reference written for a binding whose namespace and name hold no
\* separator splits into that namespace and that name, and
\* EnsureSnapshotEnvironmentBindingIsTracked fetches that binding.  A
\* reference that does not hold exactly one separator gives the
\* invalid-namespaced-name error with no store call, and
\* EnsureSnapshotEnvironmentBindingIsTracked returns requeue-with-error and
\* leaves the Release as it was.
C17_StatusRoundTrip ==
    [][/\ \A b \in bindings :
             Split(NamespacedName(b.namespace, b.name), Separator)
                = <<b.namespace, b.name>>
       /\ (/\ Runs("EnsureSnapshotEnvironmentBindingIsTracked")
           /\ a_release.status.snapshotEnvironmentBinding # <<>>) =>
             LET reference == a_release.status.snapshotEnvironmentBinding
                 l == LogOf(log', pc)
             IN  /\ (\E b \in bindings :
                        reference = NamespacedName(b.namespace, b.name)) =>
                       /\ Called(l, "GetBinding")
                       /\ ~Logged(l, "GetBinding", ErrNotFound)
                       /\ ~SomeCallFailed(l) =>
                             /\ result'.res = Continue
                             /\ release'.status.deployed = ConditionTrue
                 /\ Separators(reference) # 1 =>
                       /\ getSnapshotEnvironmentBindingFromReleaseStatus(a_release)
                             = {[binding |-> NoBinding,
                                 err |-> ErrInvalidNamespacedName,
                                 calls |-> <<>>]}
                       /\ l = <<>>
                       /\ result'.res = RequeueError
                       /\ release' = release
                       /\ a_release' = a_release]_vars

\* C17 witness: the reference written for a binding with a namespace and a
\* name has been read back, the binding fetched and the Release marked
\* deployed.
C17_Witness ==
    /\ result = [op |-> "EnsureSnapshotEnvironmentBindingIsTracked",
                 res |-> Continue]
    /\ Logged(log, "GetBinding", Ok)
    /\ \E b \in bindings :
          /\ b.namespace # <<>>
          /\ b.name # <<>>
          /\ release.status.snapshotEnvironmentBinding =
                NamespacedName(b.namespace, b.name)
    /\ release.status.deployed = ConditionTrue

\* C18: a step that adds a binding is a step of
\* EnsureSnapshotEnvironmentBindingExists on a Release that, stored and in
\* memory, has succeeded and is not deployed.  On a Release that has not
\* succeeded, EnsureSnapshotEnvironmentBindingExists and
\* EnsureSnapshotEnvironmentBindingIsTracked return continue without a store
\* call and change nothing.
C18_DeploymentAfterSuccess ==
    [][/\ (\/ created'.bindings # created.bindings
           \/ Names(bindings') # Names(bindings)) =>
             /\ pc = "EnsureSnapshotEnvironmentBindingExists"
             /\ HasSucceeded(a_release)
             /\ HasSucceeded(release)
             /\ ~HasBeenDeployed(a_release)
             /\ ~HasBeenDeployed(release)
       /\ (/\ \/ Runs("EnsureSnapshotEnvironmentBindingExists")
              \/ Runs("EnsureSnapshotEnvironmentBindingIsTracked")
           /\ ~HasSucceeded(a_release) \/ ~HasSucceeded(release)) =>
             /\ result'.res = Continue
             /\ LogOf(log', pc) = <<>>
             /\ bindings' = bindings
             /\ release' = release
             /\ a_release' = a_release]_vars

\* C18 witness: EnsureSnapshotEnvironmentBindingExists has created a binding
\* in a pass that found the Release succeeded when it started.
C18_Witness ==
    /\ result.op = "EnsureSnapshotEnvironmentBindingExists"
    /\ Logged(LogOf(log, "EnsureSnapshotEnvironmentBindingExists"),
              "CreateBinding", Ok)
    /\ created.bindings = 1
    /\ HasSucceeded(fetched)
    /\ HasSucceeded(release)
    /\ ~HasBeenDeployed(release)

\* The stored Release is marked invalid for a validation error: an ambiguous
\* or opted-out admission, or a missing admission, plan, strategy, policy or
\* snapshot.
MarkedInvalid ==
    /\ release.status.succeeded = ConditionFalse
    /\ release.status.reason \in {ReleaseReasonValidationError,
                                  ReleaseReasonReleasePlanValidationError,
                                  ReleaseReasonTargetDisabledError}
    /\ release.status.message \in {ErrMultiple, ErrAutoReleaseFalse,
                                   ErrNoAdmission, ErrNotFound}

\* C19: once the stored Release is marked invalid for a validation error, no
\* step adds a PipelineRun of the Release or marks the Release running.
C19_ValidationErrorsAreTerminal ==
    [][MarkedInvalid =>
          /\ created'.runs = created.runs
          /\ Names(ReleaseRuns') \subseteq Names(ReleaseRuns)
          /\ release'.status.reason # ReleaseReasonRunning
          /\ release'.status.succeeded = ConditionFalse]_vars

\* C20: when the lookup of EnsureReleasePipelineRunExists finds a PipelineRun,
\* the lookup is the only call of the operation: nothing is resolved, created
\* or patched, the Release stays as it was, stored and in memory, and the
\* operation returns continue.
C20_FoundIsNotRegistered ==
    [][(/\ Runs("EnsureReleasePipelineRunExists")
        /\ Logged(LogOf(log', pc), "ListPipelineRuns", "found")) =>
            /\ Len(LogOf(log', pc)) = 1
            /\ result'.res = Continue
            /\ pipelineRuns' = pipelineRuns
            /\ bindings' = bindings
            /\ created' = created
            /\ release' = release
            /\ a_release' = a_release]_vars

\* C20 witness: the PipelineRun was created in a pass whose status patch
\* failed; a later pass has found it by the lookup and returned continue, and
\* the status still names no PipelineRun.
C20_Witness ==
    /\ result = [op |-> "EnsureReleasePipelineRunExists", res |-> Continue]
    /\ LogOf(log, "EnsureReleasePipelineRunExists")
          = <<[op |-> "EnsureReleasePipelineRunExists",
               call |-> "ListPipelineRuns", out |-> "found"]>>
    /\ Cardinality(ReleaseRuns) = 1
    /\ release.status.releasePipelineRun = <<>>
    /\ ~HasStarted(release)

\* EnsureReleasePipelineRunExists has created the PipelineRun and the patch
\* that registers it has failed.
RegistrationFailed ==
    /\ result = [op |-> "EnsureReleasePipelineRunExists", res |-> RequeueError]
    /\ Logged(log, "CreatePipelineRun", Ok)
    /\ ReleaseRuns # {}
    /\ ~HasStarted(release)

\* C21: after a pass that created the PipelineRun and failed to register it,
\* the Release is eventually stored as started with the PipelineRun and the
\* strategy named in its status, and eventually stored as Succeeded or
\* Failed.
C21_RegistrationRecovers ==
    /\ RegistrationFailed ~>
          (/\ HasStarted(release)
           /\ release.status.releasePipelineRun # <<>>
           /\ release.status.releaseStrategy # <<>>)
    /\ RegistrationFailed ~>
          (release.status.reason \in {ReleaseReasonSucceeded,
                                      ReleaseReasonPipelineFailed})

\* C22: when a binding of the environment and the application exists and the
\* stored Release has succeeded, is not deployed and names no binding, the
\* binding's namespaced name is eventually stored in the status.
C22_BindingReferenceRecovers ==
    (/\ ReleaseBindings # {}
     /\ HasSucceeded(release)
     /\ ~HasBeenDeployed(release)
     /\ release.status.snapshotEnvironmentBinding = <<>>) ~>
        (\E b \in ReleaseBindings :
            release.status.snapshotEnvironmentBinding =
                NamespacedName(b.namespace, b.name))

\* C24: when EnsureSnapshotEnvironmentBindingIsTracked runs on a Release that
\* has succeeded, is not deployed and names a binding, it fetches the binding.
\* A failed fetch returns requeue-with-error and changes nothing.  With the
\* binding fetched and no AllComponentsDeployed condition on it, nothing is
\* patched and the operation continues.  With the condition present, the
\* status is patched: its deployment condition takes the status, the reason
\* and the message of the binding's condition (deploying for unknown,
\* deployed for true or false), and nothing else of the status changes.
C24_BindingTracking ==
    [][(/\ Runs("EnsureSnapshotEnvironmentBindingIsTracked")
        /\ HasSucceeded(a_release)
        /\ ~HasBeenDeployed(a_release)
        /\ a_release.status.snapshotEnvironmentBinding # <<>>) =>
            LET l == LogOf(log', pc)
            IN  /\ Called(l, "GetBinding")
                /\ ~Logged(l, "GetBinding", Ok) =>
                      /\ result'.res = RequeueError
                      /\ ~Called(l, "PatchReleaseStatus")
                      /\ release' = release
                      /\ a_release' = a_release
                /\ Logged(l, "GetBinding", Ok) =>
                      \A b \in Referenced(a_release) :
                         IF b.deployed = ConditionNone
                         THEN /\ result'.res = Continue
                              /\ ~Called(l, "PatchReleaseStatus")
                              /\ release' = release
                              /\ a_release' = a_release
                         ELSE /\ Called(l, "PatchReleaseStatus")
                              /\ IF Logged(l, "PatchReleaseStatus", Ok)
                                 THEN /\ result'.res = Continue
                                      /\ release'.status =
                                           [release.status EXCEPT
                                              !.deployed = b.deployed,
                                              !.deployedReason = b.reason,
                                              !.deployedMessage = b.message]
                                      /\ HasBeenDeployed(release')
                                            = (b.deployed # ConditionUnknown)
                                 ELSE /\ result'.res = RequeueError
                                      /\ release' = release]_vars

\* C24 witness: the binding's condition is unknown, and
\* EnsureSnapshotEnvironmentBindingIsTracked has stored the Release as
\* deploying with the condition's reason and message.
C24_Witness ==
    /\ result = [op |-> "EnsureSnapshotEnvironmentBindingIsTracked",
                 res |-> Continue]
    /\ Logged(LogOf(log, "EnsureSnapshotEnvironmentBindingIsTracked"),
              "PatchReleaseStatus", Ok)
    /\ release.status.deployed = ConditionUnknown
    /\ release.status.deployedReason = "CommitsUnsynced"
    /\ release.status.deployedMessage = "components pending"
    /\ \E b \in Referenced(release) : b.deployed = ConditionUnknown

\* C23: when the passes of two different succeeded Releases of the same
\* application and environment run concurrently, the store holds at most
\* one binding of that application in that environment in every reachable
\* state: the lookup and the create of one pass do not interleave with
\* those of the other so that both create.
C23_BindingUniqueness == Cardinality(ReleaseBindings) <= 1

=============================================================================
